---- MODULE Spec2Model ----
(***************************************************************************)
(* Electricity bill splitter: the calculation engine of                    *)
(* src/utils/calculations.js.                                              *)
(*                                                                         *)
(* Units.  The JavaScript code computes in IEEE doubles; the model         *)
(* computes the same expressions exactly, in fixed point:                  *)
(*   - energy in Wh (kWh x 1000), temperatures in whole degrees F,         *)
(*   - money in units of 1e-7 dollar (Wh x 2061, since                     *)
(*     COST_PER_KWH = 0.2061 $/kWh).                                       *)
(* Every usage drawn below is an even number of Wh and                     *)
(* 50750 - 888 * t is even for every whole t, so every cost is even and    *)
(* the halving `x / 2` of the code is exact as `x \div 2`.                 *)
(* Dates are 'YYYY-MM-DD' strings compared with <= and >= in the code;     *)
(* for well-formed ISO dates that order is the calendar order, so a date   *)
(* is modelled by its day number.                                          *)
(***************************************************************************)
EXTENDS Integers, Sequences, FiniteSets, TLC

\* ---------------------------------------------------------------- constants
LEGAL_MIN_INTERCEPT == 50750
LEGAL_MIN_SLOPE == -888
COST_PER_KWH == 2061
MIN_LEGAL_MIN_USAGE == 5000
MAX_LEGAL_MIN_USAGE == 50000
\* the longest date range validateDateRange accepts, in days
MAX_RANGE_DAYS == 365

\* ------------------------------------------------------------------- bounds
MaxRecords == 2
MaxPeriods == 2
\* records x periods of one call: the interval tests its find() may run
MaxCells == 4
ExtremeTemp == 1000
\* validateDateRange is called with days up to DaySlack after day 0, around
\* MAX_RANGE_DAYS and from LongRangeDays on
DaySlack == 2
LongRangeDays == 400
\* the December baseline is fitted on up to MaxBaseline records, dated within
\* the first FitDays days of the reference window or the day before it
\* parsePECOCSV is given up to MaxRows rows dated within CsvDays days
MaxRows == 2
CsvDays == 2
MaxBaseline == 2
\* importData is given files of up to MaxImportRows rows dated within
\* ImportDays days; up to MaxUploads file uploads and MaxLoads runs of
\* loadData take place
MaxImportRows == 2
ImportDays == 2
MaxUploads == 2
MaxLoads == 2
FitDays == 2

\* ------------------------------------------------------------ input domains
\* the calendar of the sample: two consecutive days
Dates == {1, 2}

\* (usage, temperature) pairs of a stored day: excess > 0, excess < 0 and
\* excess = 0 (baseline clamped to its lower bound, usage equal to it)
Readings ==
  { [usage_kwh |-> 51000, temp_mean_f |-> 30],
    [usage_kwh |-> 15000, temp_mean_f |-> 30],
    [usage_kwh |-> 5000,  temp_mean_f |-> 70] }

Records ==
  { [date |-> d, usage_kwh |-> r.usage_kwh, temp_mean_f |-> r.temp_mean_f] :
      d \in Dates, r \in Readings }

Controllers == {"you", "flatmate"}

Residents == [you : {0, 1}, flatmate : {0, 1}]

\* a period whose start is after its end contains no date, like any other
\* period that misses the record: only start <= end is drawn
Periods ==
  { p \in [start : Dates, end : Dates, residents : Residents,
           thermostatController : Controllers] : p.start <= p.end }

DateRanges == [start : Dates, end : Dates]

\* inputs of the single-day calculator
DailyUsages == {0, 5000, 15000, 24110, 51000}
DailyTemps == {-ExtremeTemp, 0, 30, 51, 52, 70, 80, ExtremeTemp}

VARIABLES callee, pc, data, dateRange, occupancyPeriods,
          actualUsage, outdoorTempF, thermostatController, ret

\* the state of useHistoricalData: its React state (data, here storeData;
\* loading; error), the item it keeps in localStorage, the runs of loadData
\* and the file uploads in flight, and whether clearData was ever called
VARIABLES storeData, loading, error, localStorage, loads, uploads, cleared

\* the errors state of DateRangePicker
VARIABLES errors

storeVars == <<storeData, loading, error, localStorage, loads, uploads, cleared>>

callVars == <<callee, pc, data, dateRange, occupancyPeriods,
              actualUsage, outdoorTempF, thermostatController, ret>>

pickerVars == <<errors>>

vars == <<callVars, storeVars, pickerVars>>

\* ------------------------------------------------------------ pure helpers
Max(a, b) == IF a >= b THEN a ELSE b
Min(a, b) == IF a <= b THEN a ELSE b

\* variant: the lower clamp is missing
calculateLegalMinimum_noFloor(t) ==
  LET usage == LEGAL_MIN_INTERCEPT + (LEGAL_MIN_SLOPE * t)
  IN  Min(MAX_LEGAL_MIN_USAGE, usage)

calculateLegalMinimum(t) ==
  LET usage == LEGAL_MIN_INTERCEPT + (LEGAL_MIN_SLOPE * t)
  IN  Max(MIN_LEGAL_MIN_USAGE, Min(MAX_LEGAL_MIN_USAGE, usage))

\* variant: the sign test looks at the usage instead of the excess
calculateExcess_signOfUsage(actual, legalMinUsage) ==
  LET excessUsage == actual - legalMinUsage
  IN  [usage |-> excessUsage,
       cost |-> excessUsage * COST_PER_KWH,
       isNegative |-> actual < 0]

calculateExcess(actual, legalMinUsage) ==
  LET excessUsage == actual - legalMinUsage
  IN  [usage |-> excessUsage,
       cost |-> excessUsage * COST_PER_KWH,
       isNegative |-> excessUsage < 0]

\* the share assignment of calculateDailySplit, lines 112-128
DailyShares(controller, legalMinCost, actualCost, ex) ==
  LET legalMinShareEach == legalMinCost \div 2
  IN  IF ex.isNegative
      THEN [yourShare |-> actualCost \div 2,
            flatmateShare |-> actualCost \div 2]
      ELSE IF controller = "flatmate"
      THEN [yourShare |-> legalMinShareEach,
            flatmateShare |-> legalMinShareEach + ex.cost]
      ELSE [yourShare |-> legalMinShareEach + ex.cost,
            flatmateShare |-> legalMinShareEach]

calculateDailySplit(actual, t, controller) ==
  LET legalMinUsage == calculateLegalMinimum(t)
      legalMinCost == legalMinUsage * COST_PER_KWH
      actualCost == actual * COST_PER_KWH
      ex == calculateExcess(actual, legalMinUsage)
      shares == DailyShares(controller, legalMinCost, actualCost, ex)
  IN  [legalMinUsage |-> legalMinUsage,
       legalMinCost |-> legalMinCost,
       actualCost |-> actualCost,
       excessUsage |-> ex.usage,
       excessCost |-> ex.cost,
       yourShare |-> shares.yourShare,
       flatmateShare |-> shares.flatmateShare,
       thermostatController |-> controller]

\* ------------------------------------------------------- period aggregator
\* variant: the end of the window is exclusive
InRange_endExclusive(record, range) ==
  record.date >= range.start /\ record.date < range.end

InRange(record, range) ==
  record.date >= range.start /\ record.date <= range.end

Contains(period, record) ==
  record.date >= period.start /\ record.date <= period.end

\* variant: the default assignment names "you" as the controller
DefaultOccupancy_youControls ==
  [residents |-> [you |-> 1, flatmate |-> 1],
   thermostatController |-> "you"]

DefaultOccupancy ==
  [residents |-> [you |-> 1, flatmate |-> 1],
   thermostatController |-> "flatmate"]

\* Array.prototype.find: the first element that satisfies the test, scanning
\* from index 0; undefined (here: the `||` default) when none does
RECURSIVE FindFrom(_, _, _)
FindFrom(periods, record, i) ==
  IF i > Len(periods) THEN DefaultOccupancy
  ELSE IF Contains(periods[i], record)
       THEN [residents |-> periods[i].residents,
             thermostatController |-> periods[i].thermostatController]
       ELSE FindFrom(periods, record, i + 1)

\* variant: the last matching period wins
FindOccupancy_lastMatch(periods, record) ==
  LET hits == { k \in 1..Len(periods) : Contains(periods[k], record) }
  IN  IF hits = {} THEN DefaultOccupancy
      ELSE LET k == CHOOSE x \in hits : \A y \in hits : y <= x
           IN  [residents |-> periods[k].residents,
                thermostatController |-> periods[k].thermostatController]

FindOccupancy(periods, record) == FindFrom(periods, record, 1)

OccupancyLabel(you, flatmate) ==
  LET totalResidents == you + flatmate
  IN  IF totalResidents = 0 THEN "none"
      ELSE IF totalResidents = 1
           THEN (IF you # 0 THEN "you-only" ELSE "flatmate-only")
           ELSE "both"

\* --- variants of WindowShares, each with one plausible slip --------------
\* the excess is forgotten when exactly one occupant is present
WindowShares_excessDropped(you, flatmate, controller, legalMinCost, actualCost, ex) ==
  LET totalResidents == you + flatmate
      half == legalMinCost \div 2
  IN  IF ex.isNegative
      THEN [yourShare |-> actualCost \div 2, flatmateShare |-> actualCost \div 2]
      ELSE IF totalResidents = 0 \/ totalResidents = 1
      THEN [yourShare |-> half, flatmateShare |-> half]
      ELSE (IF controller = "flatmate"
            THEN [yourShare |-> half, flatmateShare |-> half + ex.cost]
            ELSE [yourShare |-> half + ex.cost, flatmateShare |-> half])

\* the one-present branch is missing: the controller pays the excess whenever
\* somebody is present
WindowShares_controllerAlways(you, flatmate, controller, legalMinCost, actualCost, ex) ==
  LET totalResidents == you + flatmate
      half == legalMinCost \div 2
  IN  IF ex.isNegative
      THEN [yourShare |-> actualCost \div 2, flatmateShare |-> actualCost \div 2]
      ELSE IF totalResidents = 0
      THEN [yourShare |-> half, flatmateShare |-> half]
      ELSE (IF controller = "flatmate"
            THEN [yourShare |-> half, flatmateShare |-> half + ex.cost]
            ELSE [yourShare |-> half + ex.cost, flatmateShare |-> half])

\* the controller test is inverted when both are present
WindowShares_controllerSwapped(you, flatmate, controller, legalMinCost, actualCost, ex) ==
  LET totalResidents == you + flatmate
      half == legalMinCost \div 2
  IN  IF ex.isNegative
      THEN [yourShare |-> actualCost \div 2, flatmateShare |-> actualCost \div 2]
      ELSE IF totalResidents = 0
      THEN [yourShare |-> half, flatmateShare |-> half]
      ELSE IF totalResidents = 1
      THEN (IF you = 1
            THEN [yourShare |-> half + ex.cost, flatmateShare |-> half]
            ELSE [yourShare |-> half, flatmateShare |-> half + ex.cost])
      ELSE (IF controller # "flatmate"
            THEN [yourShare |-> half, flatmateShare |-> half + ex.cost]
            ELSE [yourShare |-> half + ex.cost, flatmateShare |-> half])

\* the nobody-home branch is missing: the controller pays the excess then too
WindowShares_emptyHomeCharged(you, flatmate, controller, legalMinCost, actualCost, ex) ==
  LET totalResidents == you + flatmate
      half == legalMinCost \div 2
  IN  IF ex.isNegative
      THEN [yourShare |-> actualCost \div 2, flatmateShare |-> actualCost \div 2]
      ELSE IF totalResidents = 1
      THEN (IF you = 1
            THEN [yourShare |-> half + ex.cost, flatmateShare |-> half]
            ELSE [yourShare |-> half, flatmateShare |-> half + ex.cost])
      ELSE (IF controller = "flatmate"
            THEN [yourShare |-> half, flatmateShare |-> half + ex.cost]
            ELSE [yourShare |-> half + ex.cost, flatmateShare |-> half])

\* the absent occupant is charged nothing: the present one pays the whole day
WindowShares_absentPaysNothing(you, flatmate, controller, legalMinCost, actualCost, ex) ==
  LET totalResidents == you + flatmate
      half == legalMinCost \div 2
  IN  IF totalResidents = 1
      THEN (IF you = 1
            THEN [yourShare |-> actualCost, flatmateShare |-> 0]
            ELSE [yourShare |-> 0, flatmateShare |-> actualCost])
      ELSE IF ex.isNegative
      THEN [yourShare |-> actualCost \div 2, flatmateShare |-> actualCost \div 2]
      ELSE IF totalResidents = 0
      THEN [yourShare |-> half, flatmateShare |-> half]
      ELSE (IF controller = "flatmate"
            THEN [yourShare |-> half, flatmateShare |-> half + ex.cost]
            ELSE [yourShare |-> half + ex.cost, flatmateShare |-> half])

\* the share assignment of one day, lines 205-240: the if-tree of the code
WindowShares(you, flatmate, controller, legalMinCost, actualCost, ex) ==
  LET totalResidents == you + flatmate
      yourLegalMinShare == legalMinCost \div 2
      flatmateLegalMinShare == legalMinCost \div 2
  IN  IF ex.isNegative
      THEN [yourShare |-> actualCost \div 2,
            flatmateShare |-> actualCost \div 2]
      ELSE IF totalResidents = 0
      THEN [yourShare |-> yourLegalMinShare,
            flatmateShare |-> flatmateLegalMinShare]
      ELSE IF totalResidents = 1
      THEN (IF you = 1
            THEN [yourShare |-> yourLegalMinShare + ex.cost,
                  flatmateShare |-> flatmateLegalMinShare]
            ELSE [yourShare |-> yourLegalMinShare,
                  flatmateShare |-> flatmateLegalMinShare + ex.cost])
      ELSE (IF controller = "flatmate"
            THEN [yourShare |-> yourLegalMinShare,
                  flatmateShare |-> flatmateLegalMinShare + ex.cost]
            ELSE [yourShare |-> yourLegalMinShare + ex.cost,
                  flatmateShare |-> flatmateLegalMinShare])

DayBreakdown(record, periods) ==
  LET occupancy == FindOccupancy(periods, record)
      you == occupancy.residents.you
      flatmate == occupancy.residents.flatmate
      legalMinUsage == calculateLegalMinimum(record.temp_mean_f)
      legalMinCost == legalMinUsage * COST_PER_KWH
      actualCost == record.usage_kwh * COST_PER_KWH
      ex == calculateExcess(record.usage_kwh, legalMinUsage)
      shares == WindowShares(you, flatmate, occupancy.thermostatController,
                             legalMinCost, actualCost, ex)
  IN  [date |-> record.date,
       usage |-> record.usage_kwh,
       temp |-> record.temp_mean_f,
       cost |-> actualCost,
       yourShare |-> shares.yourShare,
       flatmateShare |-> shares.flatmateShare,
       occupancy |-> OccupancyLabel(you, flatmate),
       legalMinCost |-> legalMinCost,
       excessCost |-> ex.cost]

FilterData(records, range) ==
  SelectSeq(records, LAMBDA record : InRange(record, range))

ZeroTotals ==
  [totalDays |-> 0, totalUsage |-> 0, totalCost |-> 0, yourShare |-> 0,
   flatmateShare |-> 0, avgTemp |-> 0, legalMinTotal |-> 0, excessTotal |-> 0]

\* variant: the callback forgets the accumulator, so only the last day counts
ReduceTotals_accumulatorDropped(days, i, acc) ==
  IF Len(days) = 0 THEN acc
  ELSE LET day == days[Len(days)]
       IN  [totalDays |-> Len(days),
            totalUsage |-> day.usage,
            totalCost |-> day.cost,
            yourShare |-> day.yourShare,
            flatmateShare |-> day.flatmateShare,
            avgTemp |-> day.temp,
            legalMinTotal |-> day.legalMinCost,
            excessTotal |-> day.excessCost]

\* Array.prototype.reduce over dailyBreakdowns, left to right
RECURSIVE ReduceTotals(_, _, _)
ReduceTotals(days, i, acc) ==
  IF i > Len(days) THEN acc
  ELSE ReduceTotals(days, i + 1,
         [totalDays |-> acc.totalDays + 1,
          totalUsage |-> acc.totalUsage + days[i].usage,
          totalCost |-> acc.totalCost + days[i].cost,
          yourShare |-> acc.yourShare + days[i].yourShare,
          flatmateShare |-> acc.flatmateShare + days[i].flatmateShare,
          avgTemp |-> acc.avgTemp + days[i].temp,
          legalMinTotal |-> acc.legalMinTotal + days[i].legalMinCost,
          excessTotal |-> acc.excessTotal + days[i].excessCost])

\* totals.avgTemp = sum / totalDays is a real number: it is kept as the
\* fraction num / den (den = totalDays), and as 0 / 1 when no day is in range
\* variant: the division is not guarded, so no day gives 0 / 0
AverageTemp_unguarded(sum, totalDays) ==
  [num |-> sum, den |-> totalDays]

AverageTemp(sum, totalDays) ==
  IF totalDays > 0 THEN [num |-> sum, den |-> totalDays]
  ELSE [num |-> 0, den |-> 1]

calculateTimeWindowSplit(records, range, periods) ==
  LET filteredData == FilterData(records, range)
      dailyBreakdowns ==
        [i \in 1..Len(filteredData) |-> DayBreakdown(filteredData[i], periods)]
      sums == ReduceTotals(dailyBreakdowns, 1, ZeroTotals)
      totals == [sums EXCEPT !.avgTemp = AverageTemp(sums.avgTemp, sums.totalDays)]
  IN  [dateRange |-> range,
       totals |-> totals,
       dailyBreakdowns |-> dailyBreakdowns]

\* ------------------------------------------------------------- date helpers
\* a date string given to validateDateRange: either text that parseDate cannot
\* read, or a calendar date, held as its day number
DayNumbers ==
  (0..DaySlack) \cup ((MAX_RANGE_DAYS - DaySlack)..(MAX_RANGE_DAYS + DaySlack))
    \cup (LongRangeDays..(LongRangeDays + DaySlack))

DateStrings ==
  [parseable : {TRUE}, day : DayNumbers] \cup {[parseable |-> FALSE, day |-> 0]}

\* parseDate: the Date, here << day >>, or null, here << >>
parseDate(dateString) ==
  IF dateString.parseable THEN << dateString.day >> ELSE << >>

\* date-fns differenceInDays of two dates without a time of day
differenceInDays(dateLeft, dateRight) == dateLeft[1] - dateRight[1]

\* variant: a range of exactly MAX_RANGE_DAYS days is refused as well
validateDateRange_offByOne(startDate, endDate) ==
  LET start == parseDate(startDate)
      end == parseDate(endDate)
  IN  IF start = << >> THEN [valid |-> FALSE, error |-> "Invalid start date"]
      ELSE IF end = << >> THEN [valid |-> FALSE, error |-> "Invalid end date"]
      ELSE IF start[1] > end[1]
           THEN [valid |-> FALSE, error |-> "End date must be after start date"]
      ELSE IF differenceInDays(end, start) >= MAX_RANGE_DAYS
           THEN [valid |-> FALSE, error |-> "Date range cannot exceed 1 year"]
      ELSE [valid |-> TRUE]

validateDateRange(startDate, endDate) ==
  LET start == parseDate(startDate)
      end == parseDate(endDate)
  IN  IF start = << >> THEN [valid |-> FALSE, error |-> "Invalid start date"]
      ELSE IF end = << >> THEN [valid |-> FALSE, error |-> "Invalid end date"]
      ELSE IF start[1] > end[1]
           THEN [valid |-> FALSE, error |-> "End date must be after start date"]
      ELSE IF differenceInDays(end, start) > MAX_RANGE_DAYS
           THEN [valid |-> FALSE, error |-> "Date range cannot exceed 1 year"]
      ELSE [valid |-> TRUE]

\* -------------------------------------------------- December baseline model
\* the reference window of the December baseline, as days of December 2025
\* ('2025-12-03' .. '2025-12-07')
DEC_BASELINE_START == 3
DEC_BASELINE_END == 7

\* days of December 2025 of the historical records given to the fit: the day
\* before the reference window and its first days
FitDates == (DEC_BASELINE_START - 1)..(DEC_BASELINE_START + FitDays - 1)

\* temperatures (whole degrees F) and usages (Wh) of those records; the first
\* three usages lie on usage = 50750 - 888 x temperature at 30, 40, 50 F
FitTemps == {30, 40, 50}
FitUsages == {24110, 15230, 6350, 8000}

FitRecords ==
  { r \in [date : FitDates, usage_kwh : FitUsages, temp_mean_f : FitTemps] :
      r.date >= DEC_BASELINE_START \/ r.usage_kwh = 8000 }

\* a JavaScript number: a finite value kept as the exact fraction num / den
\* in lowest terms (den > 0), or NaN, or an infinity
Finite(num, den) == [kind |-> "finite", num |-> num, den |-> den]
NaN == [kind |-> "NaN", num |-> 0, den |-> 0]
Infinity == [kind |-> "Infinity", num |-> 0, den |-> 0]

\* the greatest common divisor of two naturals
RECURSIVE Gcd(_, _)
Gcd(a, b) == IF b = 0 THEN a ELSE Gcd(b, a % b)

Abs(a) == IF a < 0 THEN -a ELSE a

\* a / b for finite integers a and b, in lowest terms: 0 / 0 is NaN, x / 0
\* an infinity
Divide(a, b) ==
  IF b = 0 THEN (IF a = 0 THEN NaN ELSE Infinity)
  ELSE LET g == Gcd(Abs(a), Abs(b))
       IN  IF b > 0 THEN Finite(a \div g, b \div g)
           ELSE Finite((-a) \div g, (-b) \div g)

\* Array.prototype.reduce((sum, d) => sum + f(d), 0) over the values f(d)
RECURSIVE ReduceSum(_, _)
ReduceSum(values, i) ==
  IF i > Len(values) THEN 0 ELSE values[i] + ReduceSum(values, i + 1)

\* (sumY - slope * sumX) / n
Intercept(sumY, slope, sumX, n) ==
  IF slope.kind = "finite"
  THEN Divide(sumY * slope.den - slope.num * sumX, slope.den * n)
  ELSE IF slope.kind = "Infinity" /\ sumX # 0 THEN Infinity
  ELSE NaN

NoModel == [model |-> "null"]

\* variant: the intercept is not divided by the number of records
decemberModel_interceptNotAveraged(historicalData) ==
  LET decBaselineData ==
        SelectSeq(historicalData,
                  LAMBDA d : d.date >= DEC_BASELINE_START /\ d.date <= DEC_BASELINE_END)
      n == Len(decBaselineData)
      sumX == ReduceSum([i \in 1..n |-> decBaselineData[i].temp_mean_f], 1)
      sumY == ReduceSum([i \in 1..n |-> decBaselineData[i].usage_kwh], 1)
      sumXY == ReduceSum([i \in 1..n |-> decBaselineData[i].temp_mean_f
                                           * decBaselineData[i].usage_kwh], 1)
      sumXX == ReduceSum([i \in 1..n |-> decBaselineData[i].temp_mean_f
                                           * decBaselineData[i].temp_mean_f], 1)
      slope == Divide(n * sumXY - sumX * sumY, n * sumXX - sumX * sumX)
  IN  IF n = 0 THEN NoModel
      ELSE [intercept |-> Intercept(sumY, slope, sumX, 1), slope |-> slope]

decemberModel(historicalData) ==
  LET decBaselineData ==
        SelectSeq(historicalData,
                  LAMBDA d : d.date >= DEC_BASELINE_START /\ d.date <= DEC_BASELINE_END)
      n == Len(decBaselineData)
      sumX == ReduceSum([i \in 1..n |-> decBaselineData[i].temp_mean_f], 1)
      sumY == ReduceSum([i \in 1..n |-> decBaselineData[i].usage_kwh], 1)
      sumXY == ReduceSum([i \in 1..n |-> decBaselineData[i].temp_mean_f
                                           * decBaselineData[i].usage_kwh], 1)
      sumXX == ReduceSum([i \in 1..n |-> decBaselineData[i].temp_mean_f
                                           * decBaselineData[i].temp_mean_f], 1)
      slope == Divide(n * sumXY - sumX * sumY, n * sumXX - sumX * sumX)
  IN  IF n = 0 THEN NoModel
      ELSE [intercept |-> Intercept(sumY, slope, sumX, n), slope |-> slope]

\* ------------------------------------------------------------- CSV parser
\* the rows papaparse hands to parsePECOCSV, for a header that names the
\* three required columns: date is a date string, and
\* usage_kwh and temp_mean_f are given as what parseFloat makes of the cell
\* (NaN for an empty or non-numeric cell; usages in Wh, whole degrees F)
CsvDates ==
  { d \in DateStrings : ~d.parseable \/ d.day \in 1..CsvDays }
CsvUsages == {NaN, Finite(-1000, 1), Finite(0, 1), Finite(20000, 1)}
CsvTemps == {NaN, Finite(30, 1), Finite(200, 1)}
\* the optional cells temp_min_f, temp_max_f (whole degrees F) and
\* cost_dollars (1e-7 dollars) of a row, as what parseFloat makes of them:
\* all three absent (NaN), all three supplied as 0, all three supplied
NoOptionals ==
  [temp_min_f |-> NaN, temp_max_f |-> NaN, cost_dollars |-> NaN]
CsvOptionals ==
  { NoOptionals,
    [temp_min_f |-> Finite(0, 1), temp_max_f |-> Finite(0, 1),
     cost_dollars |-> Finite(0, 1)],
    [temp_min_f |-> Finite(25, 1), temp_max_f |-> Finite(35, 1),
     cost_dollars |-> Finite(50000000, 1)] }

\* rows without optional cells, and well-formed rows with them
CsvRows ==
  { [date |-> d, usage_kwh |-> u, temp_mean_f |-> t, optional |-> o] :
      d \in CsvDates, u \in CsvUsages, t \in CsvTemps, o \in {NoOptionals} }
  \cup
  { [date |-> d, usage_kwh |-> Finite(20000, 1), temp_mean_f |-> Finite(30, 1),
     optional |-> o] :
      d \in { x \in CsvDates : x.parseable }, o \in CsvOptionals }

\* isNaN(value)
isNaN(value) == value.kind = "NaN"

\* value < bound and value > bound for a number and an integer bound; every
\* comparison with NaN is false
LessThan(value, bound) ==
  value.kind = "finite" /\ value.num < bound * value.den
GreaterThan(value, bound) ==
  value.kind = "finite" /\ value.num > bound * value.den

\* value || fallback: the fallback replaces a falsy value (NaN, 0)
OrElse(value, fallback) ==
  IF value.kind = "NaN" \/ (value.kind = "finite" /\ value.num = 0)
  THEN fallback ELSE value

\* usage * 0.2061, in 1e-7 dollars
DefaultCost(usage) ==
  IF usage.kind = "finite" THEN Finite(usage.num * COST_PER_KWH, usage.den)
  ELSE usage

\* the callback of data.forEach (lines 63-99) applied to rows i, i + 1, ...;
\* acc holds validRecords, invalidRecords and warnings
RECURSIVE ProcessRows(_, _, _)
ProcessRows(rows, i, acc) ==
  IF i > Len(rows) THEN acc
  ELSE
    LET record == rows[i]
        dateObj == parseDate(record.date)
        usage == record.usage_kwh
        temp == record.temp_mean_f
        unusual == isNaN(temp) \/ LessThan(temp, -50) \/ GreaterThan(temp, 150)
        warned ==
          IF unusual
          THEN Append(acc.warnings,
                      [kind |-> "Unusual temperature", row |-> i + 1])
          ELSE acc.warnings
    IN  IF dateObj = << >>
        THEN ProcessRows(rows, i + 1,
               [acc EXCEPT !.invalidRecords =
                  Append(@, [row |-> i + 1, reason |-> "Invalid date format"])])
        ELSE IF isNaN(usage) \/ LessThan(usage, 0)
        THEN ProcessRows(rows, i + 1,
               [acc EXCEPT !.invalidRecords =
                  Append(@, [row |-> i + 1, reason |-> "Invalid usage value"])])
        ELSE ProcessRows(rows, i + 1,
               [acc EXCEPT
                  !.warnings = warned,
                  !.validRecords =
                    Append(@, [date |-> dateObj[1],
                               usage_kwh |-> usage,
                               temp_mean_f |-> temp,
                               temp_min_f |->
                                 OrElse(record.optional.temp_min_f, temp),
                               temp_max_f |->
                                 OrElse(record.optional.temp_max_f, temp),
                               cost_dollars |->
                                 OrElse(record.optional.cost_dollars,
                                        DefaultCost(usage))])])

\* validRecords.sort((a, b) => a.date.localeCompare(b.date)): a stable sort
\* by date, as insertion of records i, i + 1, ... into the sorted acc
RECURSIVE SortRecords(_, _, _)
SortRecords(records, i, acc) ==
  IF i > Len(records) THEN acc
  ELSE LET k == Cardinality({ j \in 1..Len(acc) : acc[j].date <= records[i].date })
       IN  SortRecords(records, i + 1,
             SubSeq(acc, 1, k) \o << records[i] >> \o SubSeq(acc, k + 1, Len(acc)))

\* the dates pushed to `duplicates`: one for each record after the first of
\* its date
DuplicateDates(records) ==
  SelectSeq([i \in 1..Len(records) |->
               IF \E j \in 1..(i - 1) : records[j].date = records[i].date
               THEN << records[i].date >> ELSE << >>],
            LAMBDA d : d # << >>)

\* parsePECOCSV on the parsed rows of csvText; a text without rows has no
\* column names at all
parsePECOCSV(rows) ==
  IF rows = << >>
  THEN [success |-> FALSE, data |-> << >>,
        errors |-> << "Missing required columns" >>, warnings |-> << >>]
  ELSE
    LET each == ProcessRows(rows, 1,
                  [validRecords |-> << >>, invalidRecords |-> << >>,
                   warnings |-> << >>])
        skipped ==
          IF Len(each.invalidRecords) > 0
          THEN << [kind |-> "invalid records skipped",
                   row |-> each.invalidRecords[1].row] >>
          ELSE << >>
        validRecords == SortRecords(each.validRecords, 1, << >>)
        duplicates == DuplicateDates(validRecords)
        found ==
          IF Len(duplicates) > 0
          THEN << [kind |-> "Found duplicate dates", row |-> 0] >>
          ELSE << >>
    IN  [success |-> Len(validRecords) > 0,
         data |-> validRecords,
         errors |-> << >>,
         warnings |-> each.warnings \o skipped \o found,
         stats |-> [total |-> Len(rows),
                    valid |-> Len(validRecords),
                    invalid |-> Len(each.invalidRecords)]]


\* ------------------------------------------------------------ specification
\* data as the application holds it: parsePECOCSV and importData sort the
\* records by date before they are stored (duplicate dates stay possible)
SortedByDate(records) ==
  \A i \in 1..Len(records) - 1 : records[i].date <= records[i + 1].date

DataSets(n) == { d \in [1..n -> Records] : SortedByDate(d) }

PeriodLists(m) == [1..m -> Periods]

\* the data hook is not part of a call of a pure function
StoreUnused ==
  /\ storeData = << >>
  /\ loading = TRUE
  /\ error = "null"
  /\ localStorage = << >>
  /\ loads = << >>
  /\ uploads = << >>
  /\ cleared = FALSE

\* DateRangePicker's errors as useState creates it (line 12): {}
NoErrors == [general |-> "undefined", start |-> "undefined", end |-> "undefined"]

PickerUnused == errors = NoErrors

NoArgs ==
  /\ data = << >>
  /\ dateRange = [start |-> 1, end |-> 1]
  /\ occupancyPeriods = << >>

NoDayArgs ==
  /\ actualUsage = 0
  /\ outdoorTempF = 0
  /\ thermostatController = "flatmate"

InitWindow ==
  /\ callee = "calculateTimeWindowSplit"
  /\ \E n \in 0..MaxRecords, m \in 0..MaxPeriods :
       /\ n * m <= MaxCells
       /\ data \in DataSets(n)
       /\ occupancyPeriods \in PeriodLists(m)
  /\ dateRange \in DateRanges
  /\ NoDayArgs

InitDaily ==
  /\ callee = "calculateDailySplit"
  /\ actualUsage \in DailyUsages
  /\ outdoorTempF \in DailyTemps
  /\ thermostatController \in Controllers
  /\ NoArgs

InitLegalMin ==
  /\ callee = "calculateLegalMinimum"
  /\ outdoorTempF \in (-ExtremeTemp)..ExtremeTemp
  /\ actualUsage = 0
  /\ thermostatController = "flatmate"
  /\ NoArgs

InitValidate ==
  /\ callee = "validateDateRange"
  /\ dateRange \in [start : DateStrings, end : DateStrings]
  /\ data = << >>
  /\ occupancyPeriods = << >>
  /\ NoDayArgs

InitDecemberModel ==
  /\ callee = "decemberModel"
  /\ \E n \in 0..MaxBaseline :
       data \in { d \in [1..n -> FitRecords] : SortedByDate(d) }
  /\ dateRange = [start |-> DEC_BASELINE_START, end |-> DEC_BASELINE_END]
  /\ occupancyPeriods = << >>
  /\ NoDayArgs

InitParse ==
  /\ callee = "parsePECOCSV"
  /\ \E n \in 0..MaxRows : data \in [1..n -> CsvRows]
  /\ dateRange = [start |-> 1, end |-> 1]
  /\ occupancyPeriods = << >>
  /\ NoDayArgs

\* the temperatures the slider of App can be set to (min 0, max 80)
SliderTemps == { t \in DailyTemps : t >= 0 /\ t <= 80 }

\* the single-day calculation of the App component for a slider temperature
\* and an entered usage (a number; 0 is falsy)
App(outdoorTemp, usage) ==
  LET legalMinUsage == LEGAL_MIN_INTERCEPT + (LEGAL_MIN_SLOPE * outdoorTemp)
      legalMinCost == legalMinUsage * COST_PER_KWH
      excessUsage == IF usage # 0 THEN usage - legalMinUsage ELSE 0
      excessCost == IF excessUsage > 0 THEN excessUsage * COST_PER_KWH ELSE 0
      totalCost == IF usage # 0 THEN usage * COST_PER_KWH ELSE legalMinCost
  IN  [legalMinUsage |-> legalMinUsage,
       legalMinCost |-> legalMinCost,
       excessUsage |-> excessUsage,
       excessCost |-> excessCost,
       totalCost |-> totalCost,
       yourShare |-> legalMinCost \div 2,
       flatmateShare |-> (legalMinCost \div 2) + excessCost]

InitApp ==
  /\ callee = "App"
  /\ actualUsage \in DailyUsages
  /\ outdoorTempF \in SliderTemps
  /\ thermostatController = "flatmate"
  /\ NoArgs

Init ==
  /\ pc = "call"
  /\ ret = << >>
  /\ StoreUnused
  /\ PickerUnused
  /\ (InitWindow \/ InitDaily \/ InitLegalMin \/ InitValidate
        \/ InitDecemberModel \/ InitApp)

\* variant: the records are filtered in place, as by data.splice()
CallTimeWindowSplit_filtersInPlace ==
  /\ pc = "call"
  /\ callee = "calculateTimeWindowSplit"
  /\ ret' = calculateTimeWindowSplit(data, dateRange, occupancyPeriods)
  /\ data' = FilterData(data, dateRange)
  /\ pc' = "done"
  /\ UNCHANGED <<callee, dateRange, occupancyPeriods,
                 actualUsage, outdoorTempF, thermostatController>>
  /\ UNCHANGED <<storeVars, pickerVars>>

CallTimeWindowSplit ==
  /\ pc = "call"
  /\ callee = "calculateTimeWindowSplit"
  /\ ret' = calculateTimeWindowSplit(data, dateRange, occupancyPeriods)
  /\ pc' = "done"
  /\ UNCHANGED <<callee, data, dateRange, occupancyPeriods,
                 actualUsage, outdoorTempF, thermostatController>>
  /\ UNCHANGED <<storeVars, pickerVars>>

\* the same call made again with the arguments of the first one, as when the
\* memoised computation is run again
RepeatTimeWindowSplit ==
  /\ pc = "done"
  /\ callee = "calculateTimeWindowSplit"
  /\ ret' = calculateTimeWindowSplit(data, dateRange, occupancyPeriods)
  /\ pc' = "repeated"
  /\ UNCHANGED <<callee, data, dateRange, occupancyPeriods,
                 actualUsage, outdoorTempF, thermostatController>>
  /\ UNCHANGED <<storeVars, pickerVars>>

CallDailySplit ==
  /\ pc = "call"
  /\ callee = "calculateDailySplit"
  /\ ret' = calculateDailySplit(actualUsage, outdoorTempF, thermostatController)
  /\ pc' = "done"
  /\ UNCHANGED <<callee, data, dateRange, occupancyPeriods,
                 actualUsage, outdoorTempF, thermostatController>>
  /\ UNCHANGED <<storeVars, pickerVars>>

CallLegalMinimum ==
  /\ pc = "call"
  /\ callee = "calculateLegalMinimum"
  /\ ret' = calculateLegalMinimum(outdoorTempF)
  /\ pc' = "done"
  /\ UNCHANGED <<callee, data, dateRange, occupancyPeriods,
                 actualUsage, outdoorTempF, thermostatController>>
  /\ UNCHANGED <<storeVars, pickerVars>>

CallValidateDateRange ==
  /\ pc = "call"
  /\ callee = "validateDateRange"
  /\ ret' = validateDateRange(dateRange.start, dateRange.end)
  /\ pc' = "done"
  /\ UNCHANGED <<callee, data, dateRange, occupancyPeriods,
                 actualUsage, outdoorTempF, thermostatController>>
  /\ UNCHANGED <<storeVars, pickerVars>>

CallDecemberModel ==
  /\ pc = "call"
  /\ callee = "decemberModel"
  /\ ret' = decemberModel(data)
  /\ pc' = "done"
  /\ UNCHANGED <<callee, data, dateRange, occupancyPeriods,
                 actualUsage, outdoorTempF, thermostatController>>
  /\ UNCHANGED <<storeVars, pickerVars>>

CallParsePECOCSV ==
  /\ pc = "call"
  /\ callee = "parsePECOCSV"
  /\ ret' = parsePECOCSV(data)
  /\ pc' = "done"
  /\ UNCHANGED <<callee, data, dateRange, occupancyPeriods,
                 actualUsage, outdoorTempF, thermostatController>>
  /\ UNCHANGED <<storeVars, pickerVars>>

\* a render of App with the slider temperature and the entered usage
CallApp ==
  /\ pc = "call"
  /\ callee = "App"
  /\ ret' = App(outdoorTempF, actualUsage)
  /\ pc' = "done"
  /\ UNCHANGED <<callee, data, dateRange, occupancyPeriods,
                 actualUsage, outdoorTempF, thermostatController>>
  /\ UNCHANGED <<storeVars, pickerVars>>

Next ==
  \/ CallTimeWindowSplit
  \/ RepeatTimeWindowSplit
  \/ CallDailySplit
  \/ CallLegalMinimum
  \/ CallValidateDateRange
  \/ CallDecemberModel
  \/ CallApp

Spec == Init /\ [][Next]_vars

\* the CSV parser on its own
ParserInit ==
  /\ pc = "call"
  /\ ret = << >>
  /\ StoreUnused
  /\ PickerUnused
  /\ InitParse

ParserNext == CallParsePECOCSV

ParserSpec == ParserInit /\ [][ParserNext]_vars

\* ------------------------------------------------------ useHistoricalData
\* error === null
NoError == "null"

\* the item stored under STORAGE_KEY: none, the JSON text of a record list,
\* or a text that JSON.parse cannot read
NoItem == [kind |-> "absent", value |-> << >>]
CorruptItem == [kind |-> "corrupt", value |-> << >>]

\* JSON.parse(JSON.stringify(x)) of a number: NaN and the infinities are
\* written as null
JsonNumber(x) ==
  IF x.kind = "finite" THEN x ELSE [kind |-> "null", num |-> 0, den |-> 0]

\* localStorage.setItem(STORAGE_KEY, JSON.stringify(records)), held as the
\* records that JSON.parse gives back
JsonItem(records) ==
  [kind |-> "json",
   value |-> [i \in 1..Len(records) |->
                [date |-> records[i].date,
                 usage_kwh |-> JsonNumber(records[i].usage_kwh),
                 temp_mean_f |-> JsonNumber(records[i].temp_mean_f),
                 temp_min_f |-> JsonNumber(records[i].temp_min_f),
                 temp_max_f |-> JsonNumber(records[i].temp_max_f),
                 cost_dollars |-> JsonNumber(records[i].cost_dollars)]]]

\* rows of the files given to importData: a usage of 20 kWh at 30 F on one
\* of the first ImportDays days, and on day 1 also a usage of 0 and no usage
ImportRows ==
  { r \in CsvRows :
      /\ r.optional = NoOptionals
      /\ r.temp_mean_f = Finite(30, 1)
      /\ r.usage_kwh # Finite(-1000, 1)
      /\ r.date.parseable /\ r.date.day <= ImportDays
      /\ (r.usage_kwh # Finite(20000, 1) => r.date.day = 1) }

ImportFiles == UNION { [1..n -> ImportRows] : n \in 0..MaxImportRows }

\* the embedded CSV file behind HISTORICAL_DATA_PATH: one good row, or a
\* text without rows
GoodCsv ==
  << [date |-> [parseable |-> TRUE, day |-> 1], usage_kwh |-> Finite(20000, 1),
      temp_mean_f |-> Finite(30, 1), optional |-> NoOptionals] >>
EmbeddedTexts == {GoodCsv, << >>}

\* the forEach of lines 77-86 over result.data[i], result.data[i + 1], ...:
\* existingDates are the keys of existingMap, built once from data
RECURSIVE MergeRecords(_, _, _, _)
MergeRecords(newData, records, i, existingDates) ==
  IF i > Len(records) THEN newData
  ELSE IF records[i].date \in existingDates
       THEN LET index == CHOOSE k \in 1..Len(newData) :
                           /\ newData[k].date = records[i].date
                           /\ \A j \in 1..(k - 1) : newData[j].date # records[i].date
            IN  MergeRecords([newData EXCEPT ![index] = records[i]],
                             records, i + 1, existingDates)
       ELSE MergeRecords(Append(newData, records[i]), records, i + 1, existingDates)

\* variant: a failed parse empties the dataset
importData_failureClears(current, csvText) ==
  LET result == parsePECOCSV(csvText)
      existingDates == { current[k].date : k \in 1..Len(current) }
      newData == SortRecords(MergeRecords(current, result.data, 1, existingDates),
                             1, << >>)
  IN  IF ~result.success
      THEN [applied |-> TRUE, newData |-> << >>,
            returned |-> [success |-> FALSE, errors |-> result.errors,
                          warnings |-> result.warnings]]
      ELSE [applied |-> TRUE, newData |-> newData,
            returned |-> [success |-> TRUE, recordCount |-> Len(result.data),
                          warnings |-> result.warnings]]

\* importData(csvText) of a render whose data is `current`: whether setData
\* and localStorage.setItem are called, with which list, and what is returned
importData(current, csvText) ==
  LET result == parsePECOCSV(csvText)
      existingDates == { current[k].date : k \in 1..Len(current) }
      newData == SortRecords(MergeRecords(current, result.data, 1, existingDates),
                             1, << >>)
  IN  IF ~result.success
      THEN [applied |-> FALSE, newData |-> current,
            returned |-> [success |-> FALSE, errors |-> result.errors,
                          warnings |-> result.warnings]]
      ELSE [applied |-> TRUE, newData |-> newData,
            returned |-> [success |-> TRUE, recordCount |-> Len(result.data),
                          warnings |-> result.warnings]]

\* a run of loadData that has not started, and a file upload that has not
IdleLoad == [pc |-> "idle", failed |-> FALSE]
IdleUpload ==
  [pc |-> "idle", captured |-> << >>, file |-> << >>,
   returned |-> [pending |-> TRUE]]

\* the hook as useState creates it (lines 15-17), with nothing in flight
StoreIdle ==
  /\ storeData = << >>
  /\ loading = TRUE
  /\ error = NoError
  /\ loads = [l \in 1..MaxLoads |-> IdleLoad]
  /\ uploads = [u \in 1..MaxUploads |-> IdleUpload]
  /\ cleared = FALSE

\* no pure function is being called
CallIdle ==
  /\ callee = "useHistoricalData"
  /\ pc = "idle"
  /\ ret = << >>
  /\ NoArgs
  /\ NoDayArgs

\* what a browser session may find under STORAGE_KEY when the hook mounts
InitialItems == {NoItem, CorruptItem, JsonItem(parsePECOCSV(GoodCsv).data)}

StoreInit ==
  /\ StoreIdle
  /\ localStorage \in InitialItems
  /\ CallIdle
  /\ PickerUnused

\* the mount effect (lines 19-21) has called loadData
Mounted == loads[1].pc # "idle"

\* the catch and finally blocks of loadData (lines 52-59) for run l
LoadFails(l, message) ==
  /\ error' = message
  /\ storeData' = << >>
  /\ loading' = FALSE
  /\ loads' = [loads EXCEPT ![l] = [pc |-> "finished", failed |-> TRUE]]
  /\ UNCHANGED localStorage

\* loadData up to its first await (lines 24-38): run 1 is the mount effect,
\* the later runs are refresh()
LoadStart(l) ==
  /\ loads[l].pc = "idle"
  /\ l > 1 => loads[l - 1].pc # "idle"
  /\ IF localStorage.kind = "json"
     THEN /\ storeData' = localStorage.value
          /\ error' = NoError
          /\ loading' = FALSE
          /\ loads' = [loads EXCEPT ![l] = [pc |-> "finished", failed |-> FALSE]]
          /\ UNCHANGED localStorage
     ELSE IF localStorage.kind = "corrupt"
     THEN LoadFails(l, "JSON.parse: unexpected token")
     ELSE /\ loading' = TRUE
          /\ error' = NoError
          /\ loads' = [loads EXCEPT ![l].pc = "fetching"]
          /\ UNCHANGED <<storeData, localStorage>>
  /\ UNCHANGED <<uploads, cleared, callVars, pickerVars>>

\* await fetch(HISTORICAL_DATA_PATH) settles (lines 38-41): with an ok
\* response, a response that is not ok, or a rejection
FetchSettled(l) ==
  /\ loads[l].pc = "fetching"
  /\ \E outcome \in {"ok", "not ok", "rejected"} :
       IF outcome = "ok"
       THEN /\ loads' = [loads EXCEPT ![l].pc = "reading"]
            /\ UNCHANGED <<storeData, loading, error, localStorage>>
       ELSE LoadFails(l, "Failed to load CSV")
  /\ UNCHANGED <<uploads, cleared, callVars, pickerVars>>

\* await response.text() settles and the text is parsed (lines 43-59)
TextRead(l) ==
  /\ loads[l].pc = "reading"
  /\ \E csvText \in EmbeddedTexts :
       LET result == parsePECOCSV(csvText)
       IN  IF result.success
           THEN /\ storeData' = result.data
                /\ localStorage' = JsonItem(result.data)
                /\ loading' = FALSE
                /\ loads' = [loads EXCEPT ![l] = [pc |-> "finished", failed |-> FALSE]]
                /\ UNCHANGED error
           ELSE LoadFails(l, result.errors[1])
  /\ UNCHANGED <<uploads, cleared, callVars, pickerVars>>

\* handleFileUpload up to its await (lines 20-24 of DataManager): the handler
\* holds the importData of the current render, and so the current data
UploadStart(u) ==
  /\ Mounted
  /\ uploads[u].pc = "idle"
  /\ u > 1 => uploads[u - 1].pc # "idle"
  /\ \E file \in ImportFiles :
       uploads' = [uploads EXCEPT ![u] =
                     [pc |-> "reading", captured |-> storeData, file |-> file,
                      returned |-> [pending |-> TRUE]]]
  /\ UNCHANGED <<storeData, loading, error, localStorage, loads, cleared, callVars, pickerVars>>

\* await file.text() settles and onImport(text), that is importData, runs
UploadImport(u) ==
  /\ uploads[u].pc = "reading"
  /\ LET out == importData(uploads[u].captured, uploads[u].file)
     IN  /\ storeData' = IF out.applied THEN out.newData ELSE storeData
         /\ localStorage' =
              IF out.applied THEN JsonItem(out.newData) ELSE localStorage
         /\ uploads' = [uploads EXCEPT ![u] =
                          [pc |-> "done", captured |-> << >>,
                           file |-> uploads[u].file, returned |-> out.returned]]
  /\ UNCHANGED <<loading, error, loads, cleared, callVars, pickerVars>>

\* clearData (lines 101-104)
ClearData ==
  /\ Mounted
  /\ localStorage # NoItem \/ storeData # << >>
  /\ localStorage' = NoItem
  /\ storeData' = << >>
  /\ cleared' = TRUE
  /\ UNCHANGED <<loading, error, loads, uploads, callVars, pickerVars>>

\* imports: the mount effect's loadData, the file uploads and clearData
ImportNext ==
  \/ LoadStart(1) \/ FetchSettled(1) \/ TextRead(1)
  \/ \E u \in 1..MaxUploads : UploadStart(u) \/ UploadImport(u)
  \/ ClearData

ImportSpec == StoreInit /\ [][ImportNext]_vars

\* loads: the mount effect's loadData and the refresh() runs, one file
\* upload and clearData
LoadNext ==
  \/ \E l \in 1..MaxLoads : LoadStart(l) \/ FetchSettled(l) \/ TextRead(l)
  \/ UploadStart(1) \/ UploadImport(1)
  \/ ClearData

LoadSpec == StoreInit /\ [][LoadNext]_vars

\* ------------------------------------------------- the date-range calculator
\* DateRangeCalculator and DateRangePicker. Days are numbered from
\* 2025-12-18 = day 1: 2026-01-12 is day 26, December 2025 is days -16..14
\* and January 2026 is days 15..45.

\* useState of DateRangeCalculator: dateRange and occupancyPeriods
InitialDateRange == [start |-> 1, end |-> 26]

InitialOccupancyPeriods ==
  << [start |-> 1, end |-> 26, residents |-> [you |-> 1, flatmate |-> 0],
      thermostatController |-> "you"] >>

\* the values typed into the two date inputs
PickerDays == Dates \cup {26, LongRangeDays}

\* the days on which a quick preset is clicked
Todays == {7, 30}

\* the 'YYYY-MM-DD' string of a day
AsDateString(day) == [parseable |-> TRUE, day |-> day]

\* new Date(year, month, 1) and new Date(year, month + 1, 0)
ThisMonth(today) ==
  IF today <= 14 THEN [start |-> -16, end |-> 14] ELSE [start |-> 15, end |-> 45]

\* quickPresets[i].getRange() on the given day
quickPresets(today) ==
  << [start |-> today - 6, end |-> today],
     [start |-> today - 29, end |-> today],
     ThisMonth(today) >>

\* useTimeWindowCalculation: data, dateRange and occupancyPeriods are an
\* array, an object and an array, never null, so the memoised value is the
\* result of calculateTimeWindowSplit
useTimeWindowCalculation(records, range, periods) ==
  calculateTimeWindowSplit(records, range, periods)

PickerInit ==
  /\ callee = "DateRangeCalculator"
  /\ pc = "rendered"
  /\ \E n \in 0..MaxRecords : data \in DataSets(n)
  /\ dateRange = InitialDateRange
  /\ occupancyPeriods = InitialOccupancyPeriods
  /\ ret = useTimeWindowCalculation(data, dateRange, occupancyPeriods)
  /\ NoDayArgs
  /\ StoreUnused
  /\ PickerUnused

\* onChange of a date input: handleDateChange, then the render that runs
\* useTimeWindowCalculation on the new range
handleDateChange(field, value) ==
  /\ callee = "DateRangeCalculator"
  /\ dateRange' = [dateRange EXCEPT ![field] = value]
  /\ errors' = [errors EXCEPT ![field] = "null"]
  /\ ret' = useTimeWindowCalculation(data, dateRange', occupancyPeriods)
  /\ UNCHANGED <<callee, pc, data, occupancyPeriods,
                 actualUsage, outdoorTempF, thermostatController>>
  /\ UNCHANGED storeVars

\* onBlur of a date input
handleValidate ==
  /\ callee = "DateRangeCalculator"
  /\ LET validation == validateDateRange(AsDateString(dateRange.start),
                                         AsDateString(dateRange.end))
     IN  errors' = IF ~validation.valid
                   THEN [NoErrors EXCEPT !.general = validation.error]
                   ELSE NoErrors
  /\ UNCHANGED <<callVars, storeVars>>

\* onClick of a quick preset button
PresetClick(today, i) ==
  /\ callee = "DateRangeCalculator"
  /\ dateRange' = quickPresets(today)[i]
  /\ errors' = NoErrors
  /\ ret' = useTimeWindowCalculation(data, dateRange', occupancyPeriods)
  /\ UNCHANGED <<callee, pc, data, occupancyPeriods,
                 actualUsage, outdoorTempF, thermostatController>>
  /\ UNCHANGED storeVars

PickerNext ==
  \/ \E field \in {"start", "end"}, value \in PickerDays :
       handleDateChange(field, value)
  \/ handleValidate
  \/ \E today \in Todays, i \in 1..3 : PresetClick(today, i)

PickerSpec == PickerInit /\ [][PickerNext]_vars

\* =================================================================== claims
WindowDone == pc = "done" /\ callee = "calculateTimeWindowSplit"
DailyDone == pc = "done" /\ callee = "calculateDailySplit"
LegalMinDone == pc = "done" /\ callee = "calculateLegalMinimum"

\* the input records inside the requested window, in input order: day i of
\* the result is computed from Selected[i]
Selected ==
  SelectSeq(data, LAMBDA r : dateRange.start <= r.date /\ r.date <= dateRange.end)

DayIndexes == 1..Len(Selected)

\* the entries of occupancyPeriods whose closed interval holds the date
Matching(date) ==
  { k \in 1..Len(occupancyPeriods) :
      occupancyPeriods[k].start <= date /\ date <= occupancyPeriods[k].end }

FirstMatching(date) ==
  CHOOSE k \in Matching(date) : \A j \in Matching(date) : k <= j

ResidentsOn(date) ==
  IF Matching(date) = {} THEN [you |-> 1, flatmate |-> 1]
  ELSE occupancyPeriods[FirstMatching(date)].residents

ControllerOn(date) ==
  IF Matching(date) = {} THEN "flatmate"
  ELSE occupancyPeriods[FirstMatching(date)].thermostatController

PresentOn(date) == ResidentsOn(date).you + ResidentsOn(date).flatmate

BaselineUsage(t) == calculateLegalMinimum(t)
BaselineCost(r) == BaselineUsage(r.temp_mean_f) * COST_PER_KWH
ActualCost(r) == r.usage_kwh * COST_PER_KWH
ExcessUsage(r) == r.usage_kwh - BaselineUsage(r.temp_mean_f)
ExcessCost(r) == ExcessUsage(r) * COST_PER_KWH

\* the sum of a sequence of numbers
RECURSIVE SumSeq(_)
SumSeq(xs) == IF xs = << >> THEN 0 ELSE Head(xs) + SumSeq(Tail(xs))

\* C1: every day of calculateTimeWindowSplit whose resolved occupancy has at
\* least one occupant present has yourShare + flatmateShare equal to the
\* day's actual cost, usage_kwh x COST_PER_KWH.
C1_CostConservation ==
  WindowDone =>
    \A i \in DayIndexes :
      PresentOn(Selected[i].date) >= 1 =>
        ret.dailyBreakdowns[i].yourShare + ret.dailyBreakdowns[i].flatmateShare
          = ActualCost(Selected[i])

C1_Witness ==
  /\ WindowDone
  /\ \E i \in DayIndexes :
       /\ PresentOn(Selected[i].date) = 1
       /\ ExcessUsage(Selected[i]) > 0
       /\ ret.dailyBreakdowns[i].yourShare # ret.dailyBreakdowns[i].flatmateShare

\* a day on which nobody is present although usage exceeds the baseline: the
\* excess of such a day is charged to nobody
Unbilled(r) == PresentOn(r.date) = 0 /\ ExcessUsage(r) > 0

UnbilledExcess ==
  SumSeq([i \in DayIndexes |->
            IF Unbilled(Selected[i]) THEN ExcessCost(Selected[i]) ELSE 0])

\* C2 as stated: for any records, range and occupancy periods, every day's
\* yourShare + flatmateShare equals the day's cost, and totals.yourShare +
\* totals.flatmateShare equals totals.totalCost.
C2_Original ==
  WindowDone =>
    /\ \A i \in DayIndexes :
         ret.dailyBreakdowns[i].yourShare + ret.dailyBreakdowns[i].flatmateShare
           = ret.dailyBreakdowns[i].cost
    /\ ret.totals.yourShare + ret.totals.flatmateShare = ret.totals.totalCost

\* C2 amended: every day's yourShare + flatmateShare equals the day's cost,
\* except on a day with neither occupant present and excess usage > 0, where
\* it equals the day's cost minus the day's excess cost (the baseline cost);
\* totals.yourShare + totals.flatmateShare equals totals.totalCost minus the
\* excess cost of those days.
C2_ConservationExceptEmptyHome ==
  WindowDone =>
    /\ \A i \in DayIndexes :
         ret.dailyBreakdowns[i].yourShare + ret.dailyBreakdowns[i].flatmateShare
           = IF Unbilled(Selected[i])
             THEN ActualCost(Selected[i]) - ExcessCost(Selected[i])
             ELSE ActualCost(Selected[i])
    /\ ret.totals.totalCost = SumSeq([i \in DayIndexes |-> ActualCost(Selected[i])])
    /\ ret.totals.yourShare + ret.totals.flatmateShare
         = ret.totals.totalCost - UnbilledExcess

C2_Witness ==
  /\ WindowDone
  /\ \E i, j \in DayIndexes :
       /\ Unbilled(Selected[i])
       /\ ~Unbilled(Selected[j])
  /\ ret.totals.yourShare + ret.totals.flatmateShare < ret.totals.totalCost

\* C3 as stated: with neither occupant present and excess usage >= 0 each
\* occupant gets half of the baseline cost, the shares sum to the baseline
\* cost and not to the actual cost, and the day's excessCost is reported in
\* the daily result and added to totals.excessTotal.
C3_Original ==
  WindowDone =>
    /\ \A i \in DayIndexes :
         (PresentOn(Selected[i].date) = 0 /\ ExcessUsage(Selected[i]) >= 0) =>
           /\ ret.dailyBreakdowns[i].yourShare = BaselineCost(Selected[i]) \div 2
           /\ ret.dailyBreakdowns[i].flatmateShare = BaselineCost(Selected[i]) \div 2
           /\ ret.dailyBreakdowns[i].yourShare + ret.dailyBreakdowns[i].flatmateShare
                = BaselineCost(Selected[i])
           /\ ret.dailyBreakdowns[i].yourShare + ret.dailyBreakdowns[i].flatmateShare
                # ActualCost(Selected[i])
           /\ ret.dailyBreakdowns[i].excessCost = ExcessCost(Selected[i])
    /\ ret.totals.excessTotal = SumSeq([i \in DayIndexes |-> ExcessCost(Selected[i])])

\* C3 amended: with neither occupant present and excess usage >= 0 each
\* occupant gets half of the baseline cost, so the shares sum to the baseline
\* cost; that sum is below the actual cost when excess usage > 0 and equals
\* the actual cost when excess usage = 0.  The day's excessCost is reported in
\* the daily result and added to totals.excessTotal.
C3_EmptyHomeBaselineOnly ==
  WindowDone =>
    /\ \A i \in DayIndexes :
         (PresentOn(Selected[i].date) = 0 /\ ExcessUsage(Selected[i]) >= 0) =>
           /\ ret.dailyBreakdowns[i].yourShare = BaselineCost(Selected[i]) \div 2
           /\ ret.dailyBreakdowns[i].flatmateShare = BaselineCost(Selected[i]) \div 2
           /\ ret.dailyBreakdowns[i].yourShare + ret.dailyBreakdowns[i].flatmateShare
                = BaselineCost(Selected[i])
           /\ (ExcessUsage(Selected[i]) > 0 =>
                 ret.dailyBreakdowns[i].yourShare + ret.dailyBreakdowns[i].flatmateShare
                   < ActualCost(Selected[i]))
           /\ (ExcessUsage(Selected[i]) = 0 =>
                 ret.dailyBreakdowns[i].yourShare + ret.dailyBreakdowns[i].flatmateShare
                   = ActualCost(Selected[i]))
           /\ ret.dailyBreakdowns[i].excessCost = ExcessCost(Selected[i])
    /\ ret.totals.excessTotal = SumSeq([i \in DayIndexes |-> ExcessCost(Selected[i])])

C3_Witness ==
  /\ WindowDone
  /\ \E i, j \in DayIndexes :
       /\ PresentOn(Selected[i].date) = 0 /\ ExcessUsage(Selected[i]) > 0
       /\ PresentOn(Selected[j].date) = 0 /\ ExcessUsage(Selected[j]) = 0
       /\ ret.dailyBreakdowns[i].excessCost > 0
  /\ ret.totals.excessTotal > 0

\* C4: when a day's usage is below the baseline usage for its temperature
\* (excess usage < 0), calculateDailySplit and calculateTimeWindowSplit give
\* each occupant exactly actualCost / 2, whatever the presence flags and the
\* controller are.
C4_SavingsDayEvenSplit ==
  /\ WindowDone =>
       \A i \in DayIndexes :
         ExcessUsage(Selected[i]) < 0 =>
           /\ ret.dailyBreakdowns[i].yourShare = ActualCost(Selected[i]) \div 2
           /\ ret.dailyBreakdowns[i].flatmateShare = ActualCost(Selected[i]) \div 2
  /\ DailyDone =>
       (actualUsage < BaselineUsage(outdoorTempF) =>
          /\ ret.yourShare = (actualUsage * COST_PER_KWH) \div 2
          /\ ret.flatmateShare = (actualUsage * COST_PER_KWH) \div 2)

C4_Witness ==
  /\ WindowDone
  /\ \E i \in DayIndexes :
       /\ ExcessUsage(Selected[i]) < 0
       /\ PresentOn(Selected[i].date) = 0
       /\ ControllerOn(Selected[i].date) = "you"
       /\ ret.dailyBreakdowns[i].yourShare > 0

\* C5: with both occupants present and excess usage >= 0, the occupant named
\* as the day's controller pays baselineCost / 2 + excessCost and the other
\* pays exactly baselineCost / 2, for either choice of controller
\* (calculateDailySplit takes both as present).
C5_BothPresentControllerPays ==
  /\ WindowDone =>
       \A i \in DayIndexes :
         (PresentOn(Selected[i].date) = 2 /\ ExcessUsage(Selected[i]) >= 0) =>
           LET half == BaselineCost(Selected[i]) \div 2
               day == ret.dailyBreakdowns[i]
           IN  IF ControllerOn(Selected[i].date) = "you"
               THEN day.yourShare = half + ExcessCost(Selected[i])
                    /\ day.flatmateShare = half
               ELSE day.flatmateShare = half + ExcessCost(Selected[i])
                    /\ day.yourShare = half
  /\ DailyDone =>
       (actualUsage >= BaselineUsage(outdoorTempF) =>
          LET half == (BaselineUsage(outdoorTempF) * COST_PER_KWH) \div 2
              excess == (actualUsage - BaselineUsage(outdoorTempF)) * COST_PER_KWH
          IN  IF thermostatController = "you"
              THEN ret.yourShare = half + excess /\ ret.flatmateShare = half
              ELSE ret.flatmateShare = half + excess /\ ret.yourShare = half)

C5_Witness ==
  /\ WindowDone
  /\ \E i \in DayIndexes :
       /\ PresentOn(Selected[i].date) = 2
       /\ Matching(Selected[i].date) # {}
       /\ ControllerOn(Selected[i].date) = "you"
       /\ ExcessUsage(Selected[i]) > 0
       /\ ret.dailyBreakdowns[i].yourShare > ret.dailyBreakdowns[i].flatmateShare

\* occupancyPeriods with the controller of entry k replaced by c
WithController(k, c) ==
  [occupancyPeriods EXCEPT ![k].thermostatController = c]

AloneAllPeriod(who) ==
  /\ DayIndexes # {}
  /\ \A i \in DayIndexes :
       /\ Matching(Selected[i].date) # {}
       /\ ControllerOn(Selected[i].date) = who
       /\ ResidentsOn(Selected[i].date)
            = [you |-> IF who = "you" THEN 1 ELSE 0,
               flatmate |-> IF who = "flatmate" THEN 1 ELSE 0]

TotalShare(who) ==
  IF who = "you" THEN ret.totals.yourShare ELSE ret.totals.flatmateShare

Other(who) == IF who = "you" THEN "flatmate" ELSE "you"

\* what the absent occupant owes for a day: half of the baseline cost, or
\* half of the actual cost on a day whose usage is below the baseline
AbsentDue(r) ==
  IF ExcessUsage(r) < 0 THEN ActualCost(r) \div 2 ELSE BaselineCost(r) \div 2

C9_Original ==
  (DailyDone /\ outdoorTempF = 70 /\ actualUsage = 15000) =>
    /\ ret.yourShare = ret.flatmateShare
    /\ ret.yourShare = (15000 * COST_PER_KWH) \div 2

\* C10: when two or more entries of occupancyPeriods contain a record's date,
\* the day's shares and occupancy status are those of the entry that comes
\* first in the list, whatever the later entries say: they equal the result
\* computed for that record with the first containing entry alone.
C10_FirstMatchWins ==
  WindowDone =>
    \A i \in DayIndexes :
      Cardinality(Matching(Selected[i].date)) >= 2 =>
        LET first == occupancyPeriods[FirstMatching(Selected[i].date)]
            alone == calculateTimeWindowSplit(
                       << Selected[i] >>,
                       [start |-> Selected[i].date, end |-> Selected[i].date],
                       << first >>).dailyBreakdowns[1]
            day == ret.dailyBreakdowns[i]
        IN  /\ day.yourShare = alone.yourShare
            /\ day.flatmateShare = alone.flatmateShare
            /\ day.occupancy = alone.occupancy
            /\ day.occupancy =
                 (IF first.residents.you + first.residents.flatmate = 2 THEN "both"
                  ELSE IF first.residents.you = 1 THEN "you-only"
                  ELSE IF first.residents.flatmate = 1 THEN "flatmate-only"
                  ELSE "none")

C10_Witness ==
  /\ WindowDone
  /\ \E i \in DayIndexes :
       /\ Cardinality(Matching(Selected[i].date)) >= 2
       /\ ExcessUsage(Selected[i]) > 0
       /\ occupancyPeriods[1].residents = [you |-> 1, flatmate |-> 0]
       /\ occupancyPeriods[2].residents = [you |-> 0, flatmate |-> 1]
       /\ ret.dailyBreakdowns[i].occupancy = "you-only"
       /\ ret.dailyBreakdowns[i].yourShare > ret.dailyBreakdowns[i].flatmateShare

\* C11: an in-range record whose date lies in no entry of occupancyPeriods
\* (closed intervals [start, end]) gets the default assignment: the day is
\* reported as "both", and with excess usage >= 0 the flatmate pays
\* baselineCost / 2 + excessCost while you pay baselineCost / 2.
C11_DefaultAssignment ==
  WindowDone =>
    \A i \in DayIndexes :
      (\A k \in 1..Len(occupancyPeriods) :
          Selected[i].date < occupancyPeriods[k].start
          \/ Selected[i].date > occupancyPeriods[k].end) =>
        LET day == ret.dailyBreakdowns[i]
            half == BaselineCost(Selected[i]) \div 2
        IN  /\ day.occupancy = "both"
            /\ ExcessUsage(Selected[i]) >= 0 =>
                 /\ day.flatmateShare = half + ExcessCost(Selected[i])
                 /\ day.yourShare = half

C11_Witness ==
  /\ WindowDone
  /\ Len(occupancyPeriods) >= 1
  /\ \E i \in DayIndexes :
       /\ Matching(Selected[i].date) = {}
       /\ ExcessUsage(Selected[i]) > 0
       /\ ret.dailyBreakdowns[i].occupancy = "both"
       /\ ret.dailyBreakdowns[i].flatmateShare > ret.dailyBreakdowns[i].yourShare

\* the entries of dailyBreakdowns that report the readings of record r
EntriesOf(r) ==
  { i \in 1..Len(ret.dailyBreakdowns) :
      /\ ret.dailyBreakdowns[i].date = r.date
      /\ ret.dailyBreakdowns[i].usage = r.usage_kwh
      /\ ret.dailyBreakdowns[i].temp = r.temp_mean_f }

\* the positions of data that hold a record equal to r
CopiesOf(r) == { j \in 1..Len(data) : data[j] = r }

InsideWindow(date) == dateRange.start <= date /\ date <= dateRange.end

\* C12: dailyBreakdowns has exactly one entry for each input record with
\* dateRange.start <= date <= dateRange.end (both bounds inclusive), no entry
\* for a record outside the window, and for records given in ascending date
\* order its entries are in ascending date order.
C12_OneEntryPerRecordInWindow ==
  WindowDone =>
    /\ \A j \in 1..Len(data) :
         Cardinality(EntriesOf(data[j]))
           = IF InsideWindow(data[j].date)
             THEN Cardinality(CopiesOf(data[j])) ELSE 0
    /\ Len(ret.dailyBreakdowns)
         = Cardinality({ j \in 1..Len(data) : InsideWindow(data[j].date) })
    /\ (\A j \in 1..Len(data) - 1 : data[j].date <= data[j + 1].date) =>
         \A i \in 1..Len(ret.dailyBreakdowns) - 1 :
           ret.dailyBreakdowns[i].date <= ret.dailyBreakdowns[i + 1].date

C12_Witness ==
  /\ WindowDone
  /\ Len(data) = 2
  /\ data[1].date < dateRange.start
  /\ data[2].date = dateRange.start
  /\ data[2].date = dateRange.end
  /\ Len(ret.dailyBreakdowns) = 1
  /\ ret.dailyBreakdowns[1].date = data[2].date

\* the call returned a result object: { dateRange, totals, dailyBreakdowns }
ReturnedResult ==
  DOMAIN ret = {"dateRange", "totals", "dailyBreakdowns"}

\* C13 as stated: calculateTimeWindowSplit called with a date range whose
\* start is after its end fails with an invalid-range error and returns no
\* daily results and totals.
C13_Original ==
  (WindowDone /\ dateRange.start > dateRange.end) => ~ReturnedResult

ValidateDone == pc = "done" /\ callee = "validateDateRange"

\* C14: for parseable dates validateDateRange reports the range invalid when
\* end is more than 365 days after start (400 days, say) and when start is
\* after end, and valid for every start <= end at most 365 days apart,
\* start = end included.
C14_ValidateDateRange ==
  (ValidateDone /\ dateRange.start.parseable /\ dateRange.end.parseable) =>
    LET span == dateRange.end.day - dateRange.start.day
    IN  /\ span > 365 => ~ret.valid
        /\ span < 0 => ~ret.valid
        /\ (0 <= span /\ span <= 365) => ret.valid

C14_Witness ==
  /\ ValidateDone
  /\ dateRange.start.parseable
  /\ dateRange.end.parseable
  /\ dateRange.end.day - dateRange.start.day = 400
  /\ ~ret.valid
  /\ ret.error = "Date range cannot exceed 1 year"

\* C15: when no input record falls inside the requested date range,
\* calculateTimeWindowSplit returns a result with an empty dailyBreakdowns
\* and totals whose totalDays, totalUsage, totalCost, yourShare,
\* flatmateShare, legalMinTotal, excessTotal and avgTemp are all 0.
C15_EmptyWindowZeroTotals ==
  (WindowDone /\ \A j \in 1..Len(data) : ~InsideWindow(data[j].date)) =>
    /\ ReturnedResult
    /\ ret.dailyBreakdowns = << >>
    /\ ret.totals.totalDays = 0
    /\ ret.totals.totalUsage = 0
    /\ ret.totals.totalCost = 0
    /\ ret.totals.yourShare = 0
    /\ ret.totals.flatmateShare = 0
    /\ ret.totals.legalMinTotal = 0
    /\ ret.totals.excessTotal = 0
    /\ ret.totals.avgTemp.num = 0
    /\ ret.totals.avgTemp.den # 0

C15_Witness ==
  /\ WindowDone
  /\ Len(data) = 2
  /\ dateRange.start <= dateRange.end
  /\ \A j \in 1..Len(data) : data[j].date < dateRange.start
  /\ ret.dailyBreakdowns = << >>
  /\ ret.totals.totalDays = 0

\* C16: totals.totalDays is the number of entries of dailyBreakdowns; each of
\* totalUsage, totalCost, yourShare, flatmateShare, legalMinTotal and
\* excessTotal is the sum of the per-day values; with totalDays > 0, avgTemp
\* is the sum of the in-range temperatures divided by totalDays.
C16_TotalsAreSums ==
  WindowDone =>
    LET days == ret.dailyBreakdowns
        each == 1..Len(days)
        totals == ret.totals
    IN  /\ totals.totalDays = Len(days)
        /\ totals.totalUsage = SumSeq([i \in each |-> days[i].usage])
        /\ totals.totalCost = SumSeq([i \in each |-> days[i].cost])
        /\ totals.yourShare = SumSeq([i \in each |-> days[i].yourShare])
        /\ totals.flatmateShare = SumSeq([i \in each |-> days[i].flatmateShare])
        /\ totals.legalMinTotal = SumSeq([i \in each |-> days[i].legalMinCost])
        /\ totals.excessTotal = SumSeq([i \in each |-> days[i].excessCost])
        /\ totals.totalDays > 0 =>
             /\ totals.avgTemp.den # 0
             /\ totals.avgTemp.num * totals.totalDays
                  = SumSeq([i \in DayIndexes |-> Selected[i].temp_mean_f])
                      * totals.avgTemp.den

C16_Witness ==
  /\ WindowDone
  /\ Len(ret.dailyBreakdowns) = 2
  /\ ret.dailyBreakdowns[1].temp # ret.dailyBreakdowns[2].temp
  /\ ret.dailyBreakdowns[1].usage # ret.dailyBreakdowns[2].usage
  /\ ret.dailyBreakdowns[1].excessCost > 0
  /\ ret.dailyBreakdowns[2].cost > 0
  /\ ret.totals.totalDays = 2
  /\ ret.totals.totalCost > ret.dailyBreakdowns[2].cost
  /\ ret.totals.avgTemp = [num |-> 100, den |-> 2]

FitDone == pc = "done" /\ callee = "decemberModel"

\* the records of the reference window of the December baseline
Reference ==
  SelectSeq(data, LAMBDA d : DEC_BASELINE_START <= d.date /\ d.date <= DEC_BASELINE_END)

ZeroVariance ==
  \A i, j \in 1..Len(Reference) :
    Reference[i].temp_mean_f = Reference[j].temp_mean_f

\* C18 as stated: fitting the baseline on a reference window whose
\* temperatures are all identical, a window of one record included, yields
\* no model, never a model whose slope or intercept is NaN or an infinity.
C18_Original ==
  (FitDone /\ Len(Reference) >= 1 /\ ZeroVariance) =>
    \/ ret = NoModel
    \/ /\ ret.slope.kind = "finite"
       /\ ret.intercept.kind = "finite"

\* x and y are the same number
SameNumber(x, y) ==
  /\ x.kind = y.kind
  /\ x.kind = "finite" => x.num * y.den = y.num * x.den

\* the number x is the fraction num / den (den # 0)
IsFraction(x, num, den) ==
  x.kind = "finite" /\ x.num * den = num * x.den

\* every ordering of the records of data
Reorderings ==
  { [i \in 1..Len(data) |-> data[p[i]]] :
      p \in { q \in [1..Len(data) -> 1..Len(data)] :
                \A i, j \in 1..Len(data) : q[i] = q[j] => i = j } }

\* the reference records p and q have distinct temperatures and every
\* reference record lies on the line through them
OnLineThrough(p, q) ==
  /\ p.temp_mean_f # q.temp_mean_f
  /\ \A i \in 1..Len(Reference) :
       (Reference[i].usage_kwh - p.usage_kwh) * (q.temp_mean_f - p.temp_mean_f)
         = (q.usage_kwh - p.usage_kwh) * (Reference[i].temp_mean_f - p.temp_mean_f)

\* C19: for a reference window of two or more records with two or more
\* distinct temperatures whose usages lie exactly on a line
\* usage = a + b x temperature, the regression returns slope = b and
\* intercept = a, whatever the order of the records. The line is given by two
\* of its points p and q: b = dy / dx and a = (p.usage x dx - dy x p.temp) / dx.
C19_ExactLineRecovered ==
  FitDone =>
    \A i, j \in 1..Len(Reference) :
      OnLineThrough(Reference[i], Reference[j]) =>
        LET p == Reference[i]
            q == Reference[j]
            dx == q.temp_mean_f - p.temp_mean_f
            dy == q.usage_kwh - p.usage_kwh
        IN  /\ IsFraction(ret.slope, dy, dx)
            /\ IsFraction(ret.intercept, p.usage_kwh * dx - dy * p.temp_mean_f, dx)
            /\ \A other \in Reorderings :
                 /\ SameNumber(decemberModel(other).slope, ret.slope)
                 /\ SameNumber(decemberModel(other).intercept, ret.intercept)

C19_Witness ==
  /\ FitDone
  /\ Len(Reference) = 2
  /\ Reference[1].temp_mean_f = 50 /\ Reference[1].usage_kwh = 6350
  /\ Reference[2].temp_mean_f = 30 /\ Reference[2].usage_kwh = 24110
  /\ IsFraction(ret.slope, -888, 1)
  /\ IsFraction(ret.intercept, 50750, 1)

ParseDone == pc = "done" /\ callee = "parsePECOCSV"

\* C20 as stated: a row whose mean temperature is missing or not a number is
\* rejected by parsePECOCSV: no record of the returned data has a
\* temperature that is not a number.
C20_Original ==
  ParseDone =>
    \A k \in 1..Len(ret.data) : ret.data[k].temp_mean_f.kind # "NaN"

\* the rows of the imported file that parsePECOCSV accepts: those with a
\* parseable date and a usage that is a number >= 0
ValidRowIndexes(rows) ==
  { i \in 1..Len(rows) :
      /\ rows[i].date.parseable
      /\ rows[i].usage_kwh.kind = "finite"
      /\ rows[i].usage_kwh.num >= 0 }

\* the last valid row of the file for the day
LastRowFor(rows, day) ==
  CHOOSE i \in ValidRowIndexes(rows) :
    /\ rows[i].date.day = day
    /\ \A j \in ValidRowIndexes(rows) : rows[j].date.day = day => j <= i

\* C21 as stated: when the file holds several valid rows with the same date,
\* the data returned by parsePECOCSV has exactly one record for that date,
\* the one of the later row.
C21_Original ==
  ParseDone =>
    \A i \in ValidRowIndexes(data) :
      LET day == data[i].date.day
          kept == { k \in 1..Len(ret.data) : ret.data[k].date = day }
          last == data[LastRowFor(data, day)]
      IN  /\ Cardinality(kept) = 1
          /\ \A k \in kept :
               /\ ret.data[k].usage_kwh = last.usage_kwh
               /\ ret.data[k].temp_mean_f = last.temp_mean_f

\* what parsePECOCSV is to store for an optional cell: the supplied number,
\* or the default when the cell is absent
SuppliedOr(cell, default) == IF cell.kind = "finite" THEN cell ELSE default

\* C24 as stated: parsePECOCSV keeps every supplied numeric temp_min_f,
\* temp_max_f and cost_dollars unchanged, a supplied 0 included, and puts the
\* default (the mean temperature; usage x 0.2061) only where the cell is
\* absent. Stated for the rows that are the only valid row of their date.
C24_Original ==
  ParseDone =>
    \A i \in ValidRowIndexes(data) :
      (\A j \in ValidRowIndexes(data) : data[j].date.day = data[i].date.day => j = i) =>
        \A k \in 1..Len(ret.data) :
          ret.data[k].date = data[i].date.day =>
            /\ ret.data[k].temp_min_f
                 = SuppliedOr(data[i].optional.temp_min_f, data[i].temp_mean_f)
            /\ ret.data[k].temp_max_f
                 = SuppliedOr(data[i].optional.temp_max_f, data[i].temp_mean_f)
            /\ ret.data[k].cost_dollars
                 = SuppliedOr(data[i].optional.cost_dollars,
                              Finite(data[i].usage_kwh.num * COST_PER_KWH, 1))

\* C23 as stated: whenever a day in the requested range has neither occupant
\* present and excess usage > 0, the result of calculateTimeWindowSplit
\* carries a warning for that day, attached to the result or to the day's
\* entry, and every day in range still has its entry.
C23_Original ==
  WindowDone =>
    \A i \in DayIndexes :
      Unbilled(Selected[i]) =>
        /\ Len(ret.dailyBreakdowns) = Len(Selected)
        /\ \/ "warnings" \in DOMAIN ret
           \/ "warnings" \in DOMAIN ret.totals
           \/ "warning" \in DOMAIN ret.dailyBreakdowns[i]
           \/ "warnings" \in DOMAIN ret.dailyBreakdowns[i]

\* the days of the rows of a file that parsePECOCSV accepts
ImportedDays(file) == { file[i].date.day : i \in ValidRowIndexes(file) }

\* the records of a dataset dated on one of the days / on none of them
RecordsOn(records, days) == SelectSeq(records, LAMBDA r : r.date \in days)
RecordsOff(records, days) == SelectSeq(records, LAMBDA r : r.date \notin days)

\* upload u makes its importData call in this step, from a handler whose
\* data is the current dataset, and the call returns success
ImportSucceeds(u) ==
  /\ uploads[u].pc = "reading"
  /\ uploads'[u].pc = "done"
  /\ uploads[u].captured = storeData
  /\ uploads'[u].returned.success

\* C22 as stated: after a successful importData, for every date of the
\* imported file the dataset holds the imported record and no record stored
\* for that date before, and every stored record of another date is still
\* there, unchanged and in the same order.
C22_Original ==
  [][\A u \in 1..MaxUploads :
       ImportSucceeds(u) =>
         LET days == ImportedDays(uploads[u].file)
             imported == parsePECOCSV(uploads[u].file).data
             now == RecordsOn(storeData', days)
         IN  /\ \A d \in days : \E k \in 1..Len(now) : now[k].date = d
             /\ \A k \in 1..Len(now) :
                  \E i \in 1..Len(imported) : now[k] = imported[i]
             /\ RecordsOff(storeData', days) = RecordsOff(storeData, days)]_vars

\* no two records of the list have the same date
OneRecordPerDate(records) ==
  \A i, j \in 1..Len(records) : records[i].date = records[j].date => i = j

\* C25 as stated: whatever loadData, importData and clearData calls have run,
\* the dataset and the localStorage copy each hold at most one record per
\* date and are sorted by ascending date.
C25_Original ==
  /\ OneRecordPerDate(storeData) /\ SortedByDate(storeData)
  /\ OneRecordPerDate(localStorage.value) /\ SortedByDate(localStorage.value)

\* every loadData run and every file upload that was started has completed
AllCompleted ==
  /\ \A l \in 1..MaxLoads : loads[l].pc \in {"idle", "finished"}
  /\ \A u \in 1..MaxUploads : uploads[u].pc \in {"idle", "done"}

\* the list holds a record of the day
HasDay(records, day) == \E k \in 1..Len(records) : records[k].date = day

\* C26 as stated: however an in-flight loadData and the importData calls
\* interleave, once all of them have completed (and clearData was not
\* called) the dataset and the localStorage copy hold a record for every
\* date of every import that returned success.
C26_Original ==
  (AllCompleted /\ ~cleared) =>
    \A u \in 1..MaxUploads :
      (uploads[u].pc = "done" /\ uploads[u].returned.success) =>
        \A day \in ImportedDays(uploads[u].file) :
          /\ HasDay(storeData, day)
          /\ HasDay(localStorage.value, day)

\* upload u makes its importData call in this step and the parser rejects
\* the file
ImportFails(u) ==
  /\ uploads[u].pc = "reading"
  /\ uploads'[u].pc = "done"
  /\ ~parsePECOCSV(uploads[u].file).success

\* C27: when parsePECOCSV reports failure (no row at all, so that the
\* required columns are missing, or no valid record), importData returns
\* success false with the parser's errors and leaves the dataset and the
\* localStorage copy exactly as they were.
C27_FailedImportChangesNothing ==
  [][\A u \in 1..MaxUploads :
       ImportFails(u) =>
         /\ uploads'[u].returned.success = FALSE
         /\ uploads'[u].returned.errors = parsePECOCSV(uploads[u].file).errors
         /\ storeData' = storeData
         /\ localStorage' = localStorage]_vars

\* a rejected import has returned while the dataset and its cached copy hold
\* records
C27_Witness ==
  \E u \in 1..MaxUploads :
    /\ uploads[u].pc = "done"
    /\ ~uploads[u].returned.success
    /\ Len(uploads[u].returned.errors) > 0
    /\ storeData # << >>
    /\ localStorage.kind = "json"

\* validateDateRange on the range the calculator holds
RangeValidation ==
  validateDateRange(AsDateString(dateRange.start), AsDateString(dateRange.end))

\* C28 as stated: whatever edits, blur validations and preset clicks were
\* made, calculateTimeWindowSplit is not run on a range that
\* validateDateRange rejects: while the calculator holds such a range it
\* holds no cost breakdown.
C28_Original ==
  (callee = "DateRangeCalculator" /\ ~RangeValidation.valid) =>
    "totals" \notin DOMAIN ret

\* run l of loadData finishes in this step
LoadFinishes(l) == loads[l].pc # "finished" /\ loads'[l].pc = "finished"

\* C29 as stated, its part about how a run finishes: a run of loadData
\* finishes with loading = false; with error set and an empty dataset when
\* the cached copy could not be read or the fetch or the parse failed, and
\* with error = null otherwise.
C29_Original ==
  [][\A l \in 1..MaxLoads :
       LoadFinishes(l) =>
         /\ loading' = FALSE
         /\ IF loads'[l].failed
            THEN error' # NoError /\ storeData' = << >>
            ELSE error' = NoError]_vars

AppDone == pc = "done" /\ callee = "App"

\* C30 as stated: for every slider temperature and every entered usage, the
\* legal minimum usage, 'your' share and the flatmate's share computed by
\* App equal those of calculateDailySplit(actualUsage, temperature,
\* 'flatmate'), and the two shares add up to the total cost App displays.
C30_Original ==
  AppDone =>
    LET split == calculateDailySplit(actualUsage, outdoorTempF, "flatmate")
    IN  /\ ret.legalMinUsage = split.legalMinUsage
        /\ ret.yourShare = split.yourShare
        /\ ret.flatmateShare = split.flatmateShare
        /\ ret.yourShare + ret.flatmateShare = ret.totalCost

====
